---------------------------- MODULE Spec2Model ----------------------------
(***************************************************************************)
(* Model of the ARM64 executor of sca-fuzzer (src/arm64/executor/main.h).  *)
(*                                                                         *)
(* The header fixes the build configuration (L1D geometry), the layout of  *)
(* sandbox_t and measurement_t, the offsets the measurement templates use  *)
(* to address the sandbox, and the size limits of test case, measurement   *)
(* code and inputs.  The functions it declares (trace_test_case,           *)
(* load_template, the two templates) are modelled as the design document   *)
(* describes them, on top of the header's constants and layout.            *)
(*                                                                         *)
(* Addresses are byte offsets from the start of the sandbox, which is      *)
(* taken to be aligned to the L1D conflict distance.  Byte memory is kept  *)
(* as the set of addresses holding a non-zero byte.  A 64-bit word is the  *)
(* set of its one-bits (a subset of 0..63).                                *)
(***************************************************************************)
EXTENDS Integers, Sequences, FiniteSets, TLC

VARIABLES
    build,             \* -D macros of the build: L1D_SIZE_K, L1D_ASSOCIATIVITY (0 = undefined)
    attack_template,   \* extern char *attack_template
    pre_run_flush,     \* extern char pre_run_flush
    test_case,         \* extern char *test_case: the program under test
    measurement_code,  \* extern char *measurement_code: what load_template spliced
    inputs,            \* extern uint64_t *inputs: the input vectors
    n_inputs,          \* extern volatile size_t n_inputs
    measurements,      \* extern measurement_t *measurements
    sandbox,           \* extern sandbox_t *sandbox
    cache,             \* the L1D: per set, the resident lines, most recent first
    cpu,               \* stack pointer, registers, htrace register, counters
    orch,              \* the orchestrator: state of the run, index, status
    hist               \* history of the session (what the claims speak about)

vars == <<build, attack_template, pre_run_flush, test_case, measurement_code, inputs,
          n_inputs, measurements, sandbox, cache, cpu, orch, hist>>

---------------------------------------------------------------------------
(* Bounds of the model *)

\* at most this many input vectors in the inputs sequence
MaxInputs == 2

---------------------------------------------------------------------------
(* Build configuration: main.h lines 13-27 *)

UNDEFINED == 0

L1D_ASSOCIATIVITY_FALLBACK == 2

L1D_SIZE_FALLBACK == 32768

L1D_ASSOCIATIVITY ==
    IF build.L1D_ASSOCIATIVITY = UNDEFINED THEN L1D_ASSOCIATIVITY_FALLBACK
    ELSE build.L1D_ASSOCIATIVITY

L1D_SIZE ==
    IF build.L1D_SIZE_K = UNDEFINED THEN L1D_SIZE_FALLBACK
    ELSE build.L1D_SIZE_K * 1024

L1D_CONFLICT_DISTANCE == L1D_SIZE \div L1D_ASSOCIATIVITY

\* the builds considered: nothing defined (both fallbacks), and a 16KB 4-way L1D
DefaultBuild == [L1D_SIZE_K |-> UNDEFINED, L1D_ASSOCIATIVITY |-> UNDEFINED]

SmallBuild == [L1D_SIZE_K |-> 16, L1D_ASSOCIATIVITY |-> 4]

Builds == { DefaultBuild, SmallBuild }

---------------------------------------------------------------------------
(* Measurement results: main.h lines 38-48 *)

HTRACE_WIDTH == 1

NUM_PFC == 3

WORD_BITS_half == 64 \div 2

WORD_BITS == 64

WORD_BYTES == 8

ZeroWord == {}

\* the 64-bit word holding the number n
RECURSIVE ToWordFrom(_, _)
ToWordFrom(n, bit) ==
    IF n = 0 \/ bit >= WORD_BITS THEN {}
    ELSE (IF n % 2 = 1 THEN {bit} ELSE {}) \cup ToWordFrom(n \div 2, bit + 1)

ToWord(n) == ToWordFrom(n, 0)

\* measurement_t: htrace[HTRACE_WIDTH] followed by pfc[NUM_PFC]
ZeroMeasurement ==
    [htrace |-> [k \in 1..HTRACE_WIDTH |-> ZeroWord],
     pfc    |-> [k \in 1..NUM_PFC |-> ZeroWord]]

SizeofMeasurement == WORD_BYTES * (HTRACE_WIDTH + NUM_PFC)

---------------------------------------------------------------------------
(* Sandbox: main.h lines 50-78 *)

MAIN_REGION_SIZE == 4096

FAULTY_REGION_SIZE == 4096

OVERFLOW_REGION_SIZE_small == 4096 \div 64

OVERFLOW_REGION_SIZE == 4096

REG_INITIALIZATION_REGION_SIZE == 64

EVICT_REGION_SIZE_half == L1D_SIZE \div 2

EVICT_REGION_SIZE == L1D_SIZE

\* sandbox_t: the fields in declaration order, with size and alignment
SandboxFields ==
    << [name |-> "eviction_region",    size |-> EVICT_REGION_SIZE,    align |-> 1],
       [name |-> "lower_overflow",     size |-> OVERFLOW_REGION_SIZE, align |-> 1],
       [name |-> "main_region",        size |-> MAIN_REGION_SIZE,     align |-> 1],
       [name |-> "faulty_region",      size |-> FAULTY_REGION_SIZE,   align |-> 1],
       [name |-> "upper_overflow",     size |-> OVERFLOW_REGION_SIZE, align |-> 1],
       [name |-> "stored_rsp",         size |-> WORD_BYTES,           align |-> WORD_BYTES],
       [name |-> "latest_measurement", size |-> SizeofMeasurement,    align |-> WORD_BYTES] >>

FieldNames == { SandboxFields[k].name : k \in 1..Len(SandboxFields) }

AlignUp(n, a) == ((n + a - 1) \div a) * a

\* offset of the k-th field, as the C compiler lays the struct out
RECURSIVE FieldOffset(_)
FieldOffset(k) ==
    IF k = 1 THEN 0
    ELSE AlignUp(FieldOffset(k - 1) + SandboxFields[k - 1].size, SandboxFields[k].align)

FieldIndex(name) == CHOOSE k \in 1..Len(SandboxFields) : SandboxFields[k].name = name

Offsetof(name) == FieldOffset(FieldIndex(name))

Sizeof(name) == SandboxFields[FieldIndex(name)].size

SizeofSandbox == AlignUp(Offsetof("latest_measurement") + SizeofMeasurement, WORD_BYTES)

\* the field that holds address a, "none" outside the sandbox or in padding
FieldAt(a) ==
    IF \E k \in 1..Len(SandboxFields) :
           a >= FieldOffset(k) /\ a < FieldOffset(k) + SandboxFields[k].size
    THEN SandboxFields[CHOOSE k \in 1..Len(SandboxFields) :
           a >= FieldOffset(k) /\ a < FieldOffset(k) + SandboxFields[k].size].name
    ELSE "none"

REG_INIT_OFFSET == 8192

EVICT_REGION_OFFSET == EVICT_REGION_SIZE + OVERFLOW_REGION_SIZE

RSP_OFFSET_drift == MAIN_REGION_SIZE + FAULTY_REGION_SIZE + OVERFLOW_REGION_SIZE - WORD_BYTES

RSP_OFFSET == 12288

MEASUREMENT_OFFSET_drift == MAIN_REGION_SIZE + FAULTY_REGION_SIZE + OVERFLOW_REGION_SIZE

MEASUREMENT_OFFSET == 12296

\* the templates address the sandbox relative to the start of main_region
MainBase == Offsetof("main_region")

---------------------------------------------------------------------------
(* Test case, measurement code, inputs: main.h lines 80-91 *)

MAX_TEST_CASE_SIZE_two_pages == 4096 * 2

MAX_TEST_CASE_SIZE == 4096

MAX_MEASUREMENT_CODE_SIZE == 4096 * 2

REG_INITIALIZATION_REGION_SIZE_ALIGNED == 4096

INPUT_SIZE == MAIN_REGION_SIZE + FAULTY_REGION_SIZE + REG_INITIALIZATION_REGION_SIZE_ALIGNED

\* An input vector: the offsets of its non-zero bytes, in the memory part
\* (main page ++ faulty page) and in the register-initialization part.
ZeroVector == [mem |-> {}, regs |-> {}]

RegsVector == [mem |-> {}, regs |-> {0}]

InputVectors == { ZeroVector, RegsVector }

---------------------------------------------------------------------------
(* Sandbox memory as the C code and the templates see it *)

ByteFields == { "eviction_region", "lower_overflow", "main_region",
                "faulty_region", "upper_overflow" }

\* the sandbox after a 64-bit store of w at address a
StoreWord(sb, a, w) ==
    LET f == FieldAt(a) IN
    IF f = "stored_rsp" THEN [sb EXCEPT !.stored_rsp = w]
    ELSE IF f = "latest_measurement" THEN
        LET k == (a - Offsetof("latest_measurement")) \div WORD_BYTES IN
        IF k < HTRACE_WIDTH
        THEN [sb EXCEPT !.latest_measurement.htrace[k + 1] = w]
        ELSE [sb EXCEPT !.latest_measurement.pfc[k - HTRACE_WIDTH + 1] = w]
    ELSE IF f \in ByteFields THEN
        [sb EXCEPT !.bytes = IF w = ZeroWord THEN @ \ {a} ELSE @ \cup {a}]
    ELSE sb

\* the 64-bit word at address a
LoadWord(sb, a) ==
    LET f == FieldAt(a) IN
    IF f = "stored_rsp" THEN sb.stored_rsp
    ELSE IF f = "latest_measurement" THEN
        LET k == (a - Offsetof("latest_measurement")) \div WORD_BYTES IN
        IF k < HTRACE_WIDTH
        THEN sb.latest_measurement.htrace[k + 1]
        ELSE sb.latest_measurement.pfc[k - HTRACE_WIDTH + 1]
    ELSE IF a \in sb.bytes THEN {0}
    ELSE ZeroWord

\* the non-zero bytes of a field
NonZeroIn(sb, name) ==
    { a \in sb.bytes : a >= Offsetof(name) /\ a < Offsetof(name) + Sizeof(name) }

\* memset(field, 0, size)
ZeroField(sb, name) == [sb EXCEPT !.bytes = @ \ NonZeroIn(sb, name)]

\* the overflow canaries hold a non-zero byte
CanaryViolated(sb) ==
    NonZeroIn(sb, "lower_overflow") \cup NonZeroIn(sb, "upper_overflow") # {}

---------------------------------------------------------------------------
(* The L1D cache (LRU within a set) *)

CACHE_LINE_SIZE == 64

NumSets == L1D_CONFLICT_DISTANCE \div CACHE_LINE_SIZE

Sets == 0..(NumSets - 1)

LineOf(a) == a \div CACHE_LINE_SIZE

SetOf(a) == LineOf(a) % NumSets

EmptyCache == [s \in Sets |-> <<>>]

InSeq(x, q) == \E k \in 1..Len(q) : q[k] = x

Without(q, x) == SelectSeq(q, LAMBDA y : y # x)

Resident(c, a) == InSeq(LineOf(a), c[SetOf(a)])

\* one access to address a: the line becomes the most recent of its set
Access(c, a) ==
    LET s == SetOf(a)
        l == LineOf(a)
        q == <<l>> \o Without(c[s], l)
    IN [c EXCEPT ![s] = IF Len(q) > L1D_ASSOCIATIVITY
                        THEN SubSeq(q, 1, L1D_ASSOCIATIVITY) ELSE q]

\* the accesses addrs[lo], ..., addrs[hi], in this order (the first half is
\* evaluated before the second half starts)
RECURSIVE AccessRange(_, _, _, _)
AccessRange(c, addrs, lo, hi) ==
    IF lo > hi THEN c
    ELSE IF lo = hi THEN Access(c, addrs[lo])
    ELSE LET mid == (lo + hi) \div 2
             left == AccessRange(c, addrs, lo, mid)
         IN IF left = c THEN AccessRange(c, addrs, mid + 1, hi)
            ELSE AccessRange(left, addrs, mid + 1, hi)

AccessAll(c, addrs) == AccessRange(c, addrs, 1, Len(addrs))

\* clean and invalidate one line
FlushLine(c, a) == [c EXCEPT ![SetOf(a)] = Without(@, LineOf(a))]

---------------------------------------------------------------------------
(* Execution Template Selector *)

PRIME_PROBE == "P+P"

FLUSH_RELOAD == "F+R"

KnownTemplates_any == { PRIME_PROBE, FLUSH_RELOAD, "none" }

\* the templates the executor has: template_l1d_prime_probe, template_l1d_flush_reload
KnownTemplates == { PRIME_PROBE, FLUSH_RELOAD }

AttackTemplates == { PRIME_PROBE, FLUSH_RELOAD, "none" }

\* bytes of a template around the slot of the test case
TemplateCodeSize == MAX_TEST_CASE_SIZE \div 4

NoCode == [template |-> "none", test_case |-> "none", tc_size |-> 0, len |-> 0]

\* the test-case sizes load_template is called with
TestCaseSizes == { MAX_TEST_CASE_SIZE, MAX_TEST_CASE_SIZE + 1, MAX_MEASUREMENT_CODE_SIZE }

\* load_template(tc_size): the status and the measurement code after the call
LoadTemplateResult(tc_size) ==
    IF tc_size > MAX_TEST_CASE_SIZE
    THEN [status |-> "SizeViolation", code |-> measurement_code]
    ELSE IF attack_template \notin KnownTemplates
    THEN [status |-> "UnknownTemplate", code |-> measurement_code]
    ELSE IF TemplateCodeSize + tc_size > MAX_MEASUREMENT_CODE_SIZE
    THEN [status |-> "SizeViolation", code |-> measurement_code]
    ELSE [status |-> "OK",
          code   |-> [template |-> attack_template, test_case |-> test_case,
                      tc_size |-> tc_size, len |-> TemplateCodeSize + tc_size]]

---------------------------------------------------------------------------
(* Cache-State Primitives *)

EvictBase == MainBase - EVICT_REGION_OFFSET

\* Prime+Probe visits, set by set, one address per way
PrimeAddrs ==
    LET base == EvictBase
        ways == L1D_ASSOCIATIVITY
        dist == L1D_CONFLICT_DISTANCE
    IN [k \in 1..(NumSets * ways) |->
           base + ((k - 1) % ways) * dist + ((k - 1) \div ways) * CACHE_LINE_SIZE]

Prime(c) == AccessAll(c, PrimeAddrs)

\* the sets in which a re-access of an eviction address misses
MissingSets(c) ==
    LET addrs == PrimeAddrs
    IN { SetOf(addrs[k]) : k \in { j \in 1..Len(addrs) : ~Resident(c, addrs[j]) } }

\* the htrace words with one bit per index of idx, folded into HTRACE_WIDTH words
Bitmap(idx) ==
    [k \in 1..HTRACE_WIDTH |->
        { b \in 0..(WORD_BITS - 1) :
            \E x \in idx : x % (WORD_BITS * HTRACE_WIDTH) = (k - 1) * WORD_BITS + b }]

\* Flush+Reload tracks the lines of main_region
TrackedAddrs ==
    LET base == MainBase
    IN [k \in 1..(MAIN_REGION_SIZE \div CACHE_LINE_SIZE) |->
           base + (k - 1) * CACHE_LINE_SIZE]

RECURSIVE FlushRange(_, _, _, _)
FlushRange(c, addrs, lo, hi) ==
    IF lo > hi THEN c
    ELSE IF lo = hi THEN FlushLine(c, addrs[lo])
    ELSE LET mid == (lo + hi) \div 2
             left == FlushRange(c, addrs, lo, mid)
         IN IF left = c THEN FlushRange(c, addrs, mid + 1, hi)
            ELSE FlushRange(left, addrs, mid + 1, hi)

FlushAll(c, addrs) == FlushRange(c, addrs, 1, Len(addrs))

ReloadedLines(c) ==
    LET addrs == TrackedAddrs
    IN { k \in 1..Len(addrs) : Resident(c, addrs[k]) }

\* the prime or flush step of the selected template
PrimeOrFlush(c) ==
    IF measurement_code.template = PRIME_PROBE THEN Prime(c)
    ELSE FlushAll(c, TrackedAddrs)

\* the probe or reload step: the htrace words and the cache after it
ProbeOrReload(c) ==
    IF measurement_code.template = PRIME_PROBE
    THEN [htrace |-> Bitmap(MissingSets(c)), cache |-> AccessAll(c, PrimeAddrs)]
    ELSE [htrace |-> Bitmap({ k - 1 : k \in ReloadedLines(c) }),
          cache  |-> AccessAll(c, TrackedAddrs)]

---------------------------------------------------------------------------
(* The test case: what one execution of it does to memory *)

\* accesses of one execution, as offsets from the start of main_region
NopCase == <<>>

MainCase == << [off |-> 0, write |-> TRUE] >>

FaultyCase == << [off |-> MAIN_REGION_SIZE, write |-> FALSE] >>

UpperOverflowCase == << [off |-> MAIN_REGION_SIZE + FAULTY_REGION_SIZE + 128, write |-> TRUE] >>

LowerOverflowCase == << [off |-> 0 - WORD_BYTES, write |-> TRUE] >>

\* the programs under test, and what an execution of each can do (which of
\* these it does depends on the input and on speculation)
TestCases == { "load", "overflow" }

TestCaseBehaviours(tc) ==
    IF tc = "load" THEN { NopCase, MainCase, FaultyCase }
    ELSE { NopCase, UpperOverflowCase, LowerOverflowCase }

\* the execution writes only inside main_region and faulty_region
WellBehaved(acc) ==
    \A k \in 1..Len(acc) :
        acc[k].write => acc[k].off >= 0 /\ acc[k].off < MAIN_REGION_SIZE + FAULTY_REGION_SIZE

AccessAddrs(acc) == [k \in 1..Len(acc) |-> MainBase + acc[k].off]

WrittenAddrs(acc) == { MainBase + acc[k].off : k \in { j \in 1..Len(acc) : acc[j].write } }

---------------------------------------------------------------------------
(* Input Installer *)

\* volatile: every use of n_inputs reads the variable
ReadNInputs_cached == hist.n_cached

ReadNInputs == n_inputs

\* the sandbox after copying INPUT_SIZE bytes of the vector to main_region
\* onwards, the register-initialization part at REG_INIT_OFFSET
InstallInput(sb, vec) ==
    [sb EXCEPT !.bytes =
        (@ \ { a \in @ : a >= MainBase /\ a < MainBase + INPUT_SIZE })
        \cup { MainBase + o : o \in vec.mem }
        \cup { MainBase + REG_INIT_OFFSET + o : o \in vec.regs }]

\* the register-initialization bytes as the template loads them
RegInitBytes(sb) ==
    { o \in 0..(REG_INITIALIZATION_REGION_SIZE - 1) :
        MainBase + REG_INIT_OFFSET + o \in sb.bytes }

---------------------------------------------------------------------------
(* Initial state *)

HostSP == {4, 9}

SandboxSP == {5}

ReturnCode(status) == IF status = {} THEN 0 ELSE 1

\* the state after module initialisation, for the given configurations
InitOver(builds, templates, flushes, programs, counts, vectors) ==
    /\ build \in builds
    /\ attack_template \in templates
    /\ pre_run_flush \in flushes
    /\ test_case \in programs
    /\ measurement_code = NoCode
    /\ inputs \in [0..(MaxInputs - 1) -> vectors]
    /\ n_inputs \in counts
    /\ measurements = [k \in 0..(MaxInputs - 1) |-> ZeroMeasurement]
    /\ sandbox = [bytes |-> {}, stored_rsp |-> ZeroWord,
                  latest_measurement |-> ZeroMeasurement]
    /\ cache = EmptyCache
    /\ cpu = [sp |-> HostSP, regs |-> {}, htrace |-> ZeroMeasurement.htrace,
              pfc |-> <<0, 0, 0>>, pfc_start |-> <<0, 0, 0>>]
    /\ orch = [state |-> "NoSession", i |-> 0, status |-> {}, ret |-> 0]
    /\ hist = [load |-> <<>>, n_cached |-> n_inputs, installs |-> <<>>, runs |-> <<>>,
               recorded |-> <<>>, stored |-> <<>>, n_changed |-> FALSE,
               aborted_at |-> <<>>]

\* sessions in any configuration, with any inputs
Init ==
    InitOver(Builds, AttackTemplates, BOOLEAN, TestCases,
             0..MaxInputs, InputVectors)

\* sessions with a producer at work: the small build, default flush, the
\* loading test case, all-zero input vectors
InitProducer ==
    InitOver({SmallBuild}, AttackTemplates, {TRUE}, {"load"},
             0..MaxInputs, {ZeroVector})

---------------------------------------------------------------------------
(* Operations *)

\* int load_template(size_t tc_size)
load_template ==
    /\ orch.state = "NoSession"
    /\ \E tc_size \in TestCaseSizes :
        LET r == LoadTemplateResult(tc_size) IN
        /\ measurement_code' = r.code
        /\ hist' = [hist EXCEPT !.load =
                       << [tc_size |-> tc_size, status |-> r.status,
                           before |-> measurement_code] >>]
    /\ UNCHANGED <<build, attack_template, pre_run_flush, test_case, inputs, n_inputs,
                   measurements, sandbox, cache, cpu, orch>>

\* the session ends: trace_test_case returns
Return(status) == [orch EXCEPT !.state = "Returned", !.status = status,
                               !.ret = ReturnCode(status)]

\* int trace_test_case(void), up to the first input vector
trace_test_case ==
    /\ orch.state = "NoSession"
    /\ attack_template \notin KnownTemplates \/ measurement_code # NoCode
    /\ orch' = IF attack_template \notin KnownTemplates
               THEN Return({"UnknownTemplate"})
               ELSE IF 0 < ReadNInputs
               THEN [orch EXCEPT !.state = "Idle", !.i = 0, !.status = {}]
               ELSE Return({})
    /\ hist' = [hist EXCEPT !.load = <<>>, !.n_cached = n_inputs]
    /\ UNCHANGED <<build, attack_template, pre_run_flush, test_case, measurement_code, inputs,
                   n_inputs, measurements, sandbox, cache, cpu>>

\* Idle -> Reset: bounds check of the Input Installer, zero the canaries,
\* flush, install input i
IdleToReset ==
    /\ orch.state = "Idle"
    /\ IF orch.i >= ReadNInputs
       THEN /\ orch' = Return(orch.status \cup {"OutOfRange"})
            /\ hist' = [hist EXCEPT !.aborted_at =
                           Append(@, [i |-> orch.i, n_seen |-> n_inputs])]
            /\ UNCHANGED <<sandbox, cache, cpu>>
       ELSE /\ sandbox' = InstallInput(
                              ZeroField(ZeroField(sandbox, "lower_overflow"),
                                        "upper_overflow"),
                              inputs[orch.i])
            /\ cache' = IF pre_run_flush THEN EmptyCache ELSE cache
            /\ cpu' = [cpu EXCEPT !.pfc = <<0, 0, 0>>, !.pfc_start = <<0, 0, 0>>,
                                  !.htrace = ZeroMeasurement.htrace, !.regs = {}]
            /\ orch' = [orch EXCEPT !.state = "Reset"]
            /\ hist' = [hist EXCEPT !.installs =
                           Append(@, [i |-> orch.i, n_seen |-> n_inputs])]
    /\ UNCHANGED <<build, attack_template, pre_run_flush, test_case, measurement_code, inputs,
                   n_inputs, measurements>>

\* Reset -> Primed: the prime (or flush) step of the template
ResetToPrimed ==
    /\ orch.state = "Reset"
    /\ cache' = PrimeOrFlush(cache)
    /\ orch' = [orch EXCEPT !.state = "Primed"]
    /\ UNCHANGED <<build, attack_template, pre_run_flush, test_case, measurement_code, inputs,
                   n_inputs, measurements, sandbox, cpu, hist>>

\* Primed -> Executing: save the stack pointer, load the registers,
\* read the counters, transfer control
PrimedToExecuting ==
    /\ orch.state = "Primed"
    /\ sandbox' = StoreWord(sandbox, MainBase + RSP_OFFSET, cpu.sp)
    /\ cpu' = [cpu EXCEPT !.sp = SandboxSP, !.regs = RegInitBytes(sandbox),
                          !.pfc_start = cpu.pfc]
    /\ orch' = [orch EXCEPT !.state = "Executing"]
    /\ hist' = [hist EXCEPT !.runs =
                   Append(@, [i |-> orch.i, saved_sp |-> cpu.sp, wrote |-> {},
                              well_behaved |-> TRUE, evicted |-> {}])]
    /\ UNCHANGED <<build, attack_template, pre_run_flush, test_case, measurement_code, inputs,
                   n_inputs, measurements, cache>>

\* Executing -> Probed: the test case runs and returns; restore the stack
\* pointer; probe (or reload)
ExecutingToProbed ==
    /\ orch.state = "Executing"
    /\ \E acc \in TestCaseBehaviours(measurement_code.test_case) :
        LET c1 == AccessAll(cache, AccessAddrs(acc))
            sb1 == [sandbox EXCEPT !.bytes = @ \cup WrittenAddrs(acc)]
            pr == ProbeOrReload(c1)
            writes == Cardinality(WrittenAddrs(acc))
        IN
        /\ sandbox' = sb1
        /\ cache' = pr.cache
        /\ cpu' = [cpu EXCEPT !.sp = LoadWord(sb1, MainBase + RSP_OFFSET),
                              !.htrace = pr.htrace,
                              !.pfc = <<@[1] + Len(acc), @[2] + writes, @[3]>>]
        /\ hist' = [hist EXCEPT !.runs[Len(hist.runs)] =
                       [@ EXCEPT !.wrote = WrittenAddrs(acc),
                                 !.well_behaved = WellBehaved(acc),
                                 !.evicted = { SetOf(AccessAddrs(acc)[k]) :
                                                 k \in 1..Len(acc) }]]
    /\ orch' = [orch EXCEPT !.state = "Probed"]
    /\ UNCHANGED <<build, attack_template, pre_run_flush, test_case, measurement_code, inputs,
                   n_inputs, measurements>>

\* the measurement the template assembles from the htrace register and the counters
AssembledMeasurement ==
    [htrace |-> cpu.htrace,
     pfc    |-> [k \in 1..NUM_PFC |-> ToWord(cpu.pfc[k] - cpu.pfc_start[k])]]

MeasurementWords(m) == m.htrace \o m.pfc

RECURSIVE StoreWords(_, _, _, _)
StoreWords(sb, a, ws, k) ==
    IF k > Len(ws) THEN sb
    ELSE StoreWords(StoreWord(sb, a + (k - 1) * WORD_BYTES, ws[k]), a, ws, k + 1)

\* Probed -> Recorded: check the canaries, write htrace and pfc to latest_measurement
ProbedToRecorded ==
    /\ orch.state = "Probed"
    /\ sandbox' = StoreWords(sandbox, MainBase + MEASUREMENT_OFFSET,
                             MeasurementWords(AssembledMeasurement), 1)
    /\ orch' = [orch EXCEPT !.state = "Recorded",
                            !.status = IF CanaryViolated(sandbox)
                                       THEN @ \cup {"CorruptedSandbox"} ELSE @]
    /\ hist' = [hist EXCEPT !.recorded =
                   Append(@, [i |-> orch.i, m |-> AssembledMeasurement,
                              corrupt |-> CanaryViolated(sandbox)])]
    /\ UNCHANGED <<build, attack_template, pre_run_flush, test_case, measurement_code, inputs,
                   n_inputs, measurements, cache, cpu>>

\* Recorded -> Idle: hand the measurement to the caller's buffer, next input
\* vector, or return when the inputs are exhausted
RecordedToIdle ==
    /\ orch.state = "Recorded"
    /\ measurements' = [measurements EXCEPT ![orch.i] = sandbox.latest_measurement]
    /\ orch' = IF orch.i + 1 < ReadNInputs
               THEN [orch EXCEPT !.state = "Idle", !.i = orch.i + 1]
               ELSE [Return(orch.status) EXCEPT !.i = orch.i + 1]
    /\ hist' = [hist EXCEPT !.stored = Append(@, orch.i)]
    /\ UNCHANGED <<build, attack_template, pre_run_flush, test_case, measurement_code, inputs,
                   n_inputs, sandbox, cache, cpu>>

InCall == orch.state \notin {"NoSession", "Returned"}

\* the external producer changes the number of inputs during the call
Producer ==
    /\ InCall
    /\ \E m \in 0..MaxInputs : m # n_inputs /\ n_inputs' = m
    /\ hist' = [hist EXCEPT !.n_changed = TRUE]
    /\ UNCHANGED <<build, attack_template, pre_run_flush, test_case, measurement_code, inputs,
                   measurements, sandbox, cache, cpu, orch>>

Next ==
    \/ load_template
    \/ trace_test_case
    \/ IdleToReset
    \/ ResetToPrimed
    \/ PrimedToExecuting
    \/ ExecutingToProbed
    \/ ProbedToRecorded
    \/ RecordedToIdle

NextProducer ==
    \/ Next
    \/ Producer

\* a session, the inputs fixed
Spec == Init /\ [][Next]_vars

\* a session with the external producer changing n_inputs at any time
SpecProducer == InitProducer /\ [][NextProducer]_vars

---------------------------------------------------------------------------
(* Properties *)

KnownTemplate == attack_template \in { PRIME_PROBE, FLUSH_RELOAD }

Returned == orch.state = "Returned"

LastOf(q) == q[Len(q)]

\* C4: the offsets the templates use agree with the layout of sandbox_t in
\* every build: eviction_region lies EVICT_REGION_OFFSET below main_region,
\* stored_rsp at RSP_OFFSET, latest_measurement at MEASUREMENT_OFFSET,
\* REG_INIT_OFFSET is the first byte after faulty_region, and the seven
\* fields follow each other in declaration order without gap or overlap.
C4_OffsetsMatchLayout ==
    /\ MainBase - Offsetof("eviction_region") = EVICT_REGION_OFFSET
    /\ EVICT_REGION_OFFSET = EVICT_REGION_SIZE + OVERFLOW_REGION_SIZE
    /\ Offsetof("stored_rsp") - MainBase = RSP_OFFSET
    /\ RSP_OFFSET = MAIN_REGION_SIZE + FAULTY_REGION_SIZE + OVERFLOW_REGION_SIZE
    /\ Offsetof("latest_measurement") - MainBase = MEASUREMENT_OFFSET
    /\ MEASUREMENT_OFFSET = RSP_OFFSET + Sizeof("stored_rsp")
    /\ REG_INIT_OFFSET = MAIN_REGION_SIZE + FAULTY_REGION_SIZE
    /\ MainBase + REG_INIT_OFFSET = Offsetof("faulty_region") + Sizeof("faulty_region")
    /\ [k \in 1..Len(SandboxFields) |-> SandboxFields[k].name] =
           << "eviction_region", "lower_overflow", "main_region", "faulty_region",
              "upper_overflow", "stored_rsp", "latest_measurement" >>
    /\ Offsetof("eviction_region") = 0
    /\ \A k \in 1..(Len(SandboxFields) - 1) :
           FieldOffset(k + 1) = FieldOffset(k) + SandboxFields[k].size

\* C4 witness: in the default build a run has stored the stack pointer and a
\* non-zero measurement through the offsets, and both arrived in their fields
C4_Witness ==
    /\ build = DefaultBuild
    /\ orch.state = "Recorded"
    /\ sandbox.stored_rsp = HostSP
    /\ sandbox.latest_measurement = LastOf(hist.recorded).m
    /\ sandbox.latest_measurement # ZeroMeasurement

\* the bytes of the input area of the sandbox are those of vector vec
Installed(vec) ==
    { a \in sandbox.bytes : a >= MainBase /\ a < MainBase + INPUT_SIZE } =
        { MainBase + o : o \in vec.mem }
        \cup { MainBase + MAIN_REGION_SIZE + FAULTY_REGION_SIZE + o : o \in vec.regs }

RunCycle ==
    { <<"NoSession", "Idle">>, <<"NoSession", "Returned">>,
      <<"Idle", "Reset">>, <<"Idle", "Returned">>,
      <<"Reset", "Primed">>, <<"Primed", "Executing">>,
      <<"Executing", "Probed">>, <<"Probed", "Recorded">>,
      <<"Recorded", "Idle">>, <<"Recorded", "Returned">> }

\* what holds in each state of a run
C7_StateOrder ==
    /\ orch.state = "Reset" =>
           /\ Installed(inputs[orch.i])
           /\ LastOf(hist.installs).i = orch.i
    /\ orch.state = "Executing" =>
           /\ sandbox.stored_rsp = HostSP
           /\ cpu.sp = SandboxSP
    /\ orch.state \in {"Probed", "Recorded"} =>
           /\ cpu.sp = HostSP
           /\ sandbox.stored_rsp = HostSP
    /\ orch.state \in {"Reset", "Primed", "Executing", "Probed", "Recorded"} =>
           \* one pass: the run of input i is the latest, and no earlier run was of i
           /\ Len(hist.installs) = orch.i + 1
           /\ Len(hist.runs) =
                  IF orch.state \in {"Reset", "Primed"} THEN orch.i ELSE orch.i + 1
           /\ Len(hist.recorded) = IF orch.state = "Recorded" THEN orch.i + 1 ELSE orch.i

\* the steps a run may take
C7_StepOrder ==
    /\ orch' # orch => <<orch.state, orch'.state>> \in RunCycle
    /\ (orch.state = "Idle" /\ orch'.state = "Returned") => orch.i >= n_inputs
    /\ sandbox'.latest_measurement # sandbox.latest_measurement =>
           orch.state = "Probed" /\ orch'.state = "Recorded"
    /\ sandbox'.stored_rsp # sandbox.stored_rsp =>
           orch.state = "Primed" /\ orch'.state = "Executing"
    /\ orch.state = "Recorded" /\ orch' # orch =>
           /\ orch'.i = orch.i + 1
           /\ orch'.state = IF orch.i + 1 < n_inputs THEN "Idle" ELSE "Returned"

\* C7: a run goes Idle, Reset, Primed, Executing, Probed, Recorded in this
\* order, once each; input i is installed when the prime/flush step starts;
\* the host stack pointer is in stored_rsp during Executing and back in the
\* CPU from Probed on; latest_measurement changes only in the step from
\* Probed to Recorded; after Recorded comes Idle with the next index, or the
\* return when the inputs are exhausted.
C7_RunStateMachine == [](C7_StateOrder) /\ [][C7_StepOrder]_vars

\* C7 witness: the second run of a session has reached Recorded
C7_Witness ==
    /\ orch.state = "Recorded"
    /\ orch.i = 1
    /\ cpu.sp = HostSP
    /\ sandbox.latest_measurement # ZeroMeasurement

\* C1: when trace_test_case has returned 0, it has made exactly n_inputs
\* runs, of the inputs 0, 1, ..., n-1 in this order, each installed, executed
\* and recorded once, and position i of the measurements buffer holds the
\* measurement recorded for input i; a call with a known template whose runs
\* found the canaries clean returns 0.
C1_OneMeasurementPerInput ==
    Returned /\ KnownTemplate =>
        /\ orch.ret = 0 =>
            /\ Len(hist.runs) = n_inputs
            /\ Len(hist.recorded) = n_inputs
            /\ hist.stored = [k \in 1..n_inputs |-> k - 1]
            /\ \A k \in 1..n_inputs :
                /\ hist.installs[k].i = k - 1
                /\ hist.runs[k].i = k - 1
                /\ hist.recorded[k].i = k - 1
                /\ measurements[k - 1] = hist.recorded[k].m
        /\ (\A k \in 1..Len(hist.recorded) : ~hist.recorded[k].corrupt) => orch.ret = 0

\* C1 witness: a call over two inputs returned 0 with two different measurements
C1_Witness ==
    /\ Returned
    /\ orch.ret = 0
    /\ n_inputs = 2
    /\ Len(hist.runs) = 2
    /\ measurements[0] # measurements[1]
    /\ measurements[1] # ZeroMeasurement

\* C2: load_template rejects tc_size 4097, and every tc_size above 4096,
\* with SizeViolation and leaves the measurement code as it was; with a
\* known template it accepts 4096; the measurement code never exceeds
\* MAX_MEASUREMENT_CODE_SIZE (two pages).
C2_LoadTemplateSize ==
    /\ measurement_code.len <= 2 * 4096
    /\ measurement_code.len <= MAX_MEASUREMENT_CODE_SIZE
    /\ hist.load # <<>> =>
        LET call == hist.load[1] IN
        /\ call.tc_size > 4096 =>
               /\ call.status = "SizeViolation"
               /\ measurement_code = call.before
        /\ (call.tc_size = 4096 /\ KnownTemplate) =>
               /\ call.status = "OK"
               /\ measurement_code.tc_size = 4096
               /\ measurement_code.template = attack_template

\* C2 witness: a test case of 4097 bytes was rejected after one of 4096 was loaded
C2_Witness ==
    /\ hist.load # <<>>
    /\ hist.load[1].tc_size = 4097
    /\ hist.load[1].status = "SizeViolation"
    /\ hist.load[1].before # NoCode
    /\ measurement_code.tc_size = 4096

\* C3: at Probed, after a run whose test case wrote only inside main_region
\* and faulty_region, every byte of lower_overflow and upper_overflow is
\* zero, whatever the input vector (so the run is not flagged CorruptedSandbox).
C3_NoFalseCorruption ==
    (orch.state = "Probed" /\ LastOf(hist.runs).well_behaved) =>
        ~CanaryViolated(sandbox)

\* what holds of a session with corrupted runs, state by state
C6_StateCorruption ==
    /\ orch.state = "Recorded" =>
        /\ sandbox.latest_measurement = LastOf(hist.recorded).m
        /\ LastOf(hist.recorded).corrupt => "CorruptedSandbox" \in orch.status
        /\ ~LastOf(hist.runs).well_behaved => LastOf(hist.recorded).corrupt
    /\ orch.state = "Reset" =>
        /\ NonZeroIn(sandbox, "lower_overflow") = {}
        /\ NonZeroIn(sandbox, "upper_overflow") \subseteq
               { MainBase + MAIN_REGION_SIZE + FAULTY_REGION_SIZE + o :
                     o \in inputs[orch.i].regs }
        /\ \A k \in 1..Len(hist.runs) :
               hist.runs[k].wrote \cap
                   (NonZeroIn(sandbox, "lower_overflow")
                    \cup NonZeroIn(sandbox, "upper_overflow")) = {}
    /\ (Returned /\ KnownTemplate) =>
        /\ Len(hist.recorded) = n_inputs
        /\ hist.stored = [k \in 1..n_inputs |-> k - 1]
        /\ \A k \in 1..n_inputs : measurements[k - 1] = hist.recorded[k].m
        /\ (\E k \in 1..n_inputs : hist.recorded[k].corrupt) => orch.ret # 0

\* the step taken from Probed with a non-zero canary byte
C6_StepCorruption ==
    (orch.state = "Probed" /\ CanaryViolated(sandbox) /\ orch' # orch) =>
        /\ orch'.state = "Recorded"
        /\ "CorruptedSandbox" \in orch'.status
        /\ sandbox'.latest_measurement = AssembledMeasurement

\* C6: a run that ends with a non-zero canary byte still goes from Probed to
\* Recorded, with htrace and pfc in latest_measurement and CorruptedSandbox
\* in the status; a test case that wrote outside main_region/faulty_region
\* is so flagged; what it wrote to the canaries is gone when the next run
\* has passed Reset; and the call, its n_inputs unchanged, returns non-zero
\* with one measurement for each of the n inputs.
C6_CorruptionDoesNotAbort == [](C6_StateCorruption) /\ [][C6_StepCorruption]_vars

\* C6 witness: the first of two runs overflowed, the second did not, and the
\* call returned non-zero with both measurements
C6_Witness ==
    /\ Returned
    /\ n_inputs = 2
    /\ Len(hist.recorded) = 2
    /\ ~hist.runs[1].well_behaved
    /\ hist.recorded[1].corrupt
    /\ ~hist.recorded[2].corrupt
    /\ orch.ret # 0

PrimeProbeLoaded == measurement_code.template = PRIME_PROBE

\* the cache lines of eviction_region
EvictionLines ==
    { l \in LineOf(Offsetof("eviction_region")) ..
            LineOf(Offsetof("eviction_region") + EVICT_REGION_SIZE - 1) :
        FieldAt(l * CACHE_LINE_SIZE) = "eviction_region" }

\* C8: right after the Prime step of Prime+Probe every L1D set holds
\* L1D_ASSOCIATIVITY lines, all of them lines of eviction_region;
\* eviction_region has, for every set, exactly L1D_ASSOCIATIVITY congruent
\* line addresses, L1D_CONFLICT_DISTANCE apart, and the Prime step accesses
\* each of them once.
C8_PrimeFillsEverySet ==
    (orch.state = "Primed" /\ PrimeProbeLoaded) =>
        LET lines == EvictionLines
            base == Offsetof("eviction_region")
        IN
        /\ \A s \in Sets :
            /\ Len(cache[s]) = L1D_ASSOCIATIVITY
            /\ \A k \in 1..Len(cache[s]) : cache[s][k] \in lines
            /\ { l * CACHE_LINE_SIZE : l \in { x \in lines : x % NumSets = s } } =
                   { base + s * CACHE_LINE_SIZE + w * L1D_CONFLICT_DISTANCE :
                         w \in 0..(L1D_ASSOCIATIVITY - 1) }
        /\ Len(PrimeAddrs) = Cardinality(lines)
        /\ { PrimeAddrs[k] : k \in 1..Len(PrimeAddrs) } =
               { l * CACHE_LINE_SIZE : l \in lines }

\* C8 witness: the default build is primed for its second run, after a first
\* run whose test case brought a line of main_region into the cache
C8_Witness ==
    /\ orch.state = "Primed"
    /\ PrimeProbeLoaded
    /\ build = DefaultBuild
    /\ ~pre_run_flush
    /\ orch.i = 1
    /\ hist.runs[1].evicted # {}

\* bit number s of the htrace words h
HtraceBit(h, s) == \E w \in DOMAIN h : w = s \div 64 + 1 /\ (s % 64) \in h[w]

\* C9 (as claimed): with Prime+Probe two runs that evict different cache sets
\* have different htrace values.
C9_HtraceLosesNoSet ==
    PrimeProbeLoaded =>
        \A j, k \in 1..Len(hist.recorded) :
            hist.runs[j].evicted # hist.runs[k].evicted =>
                hist.recorded[j].m.htrace # hist.recorded[k].m.htrace

\* C9 (amended): with Prime+Probe in a build whose number of cache sets
\* (L1D_CONFLICT_DISTANCE / 64) is at most 64 * HTRACE_WIDTH, bit s of htrace
\* is set iff the run evicted an eviction line of set s, so runs that evict
\* different sets have different htrace values.
C9_HtracePerSetWithinWidth ==
    (PrimeProbeLoaded /\ (L1D_SIZE \div L1D_ASSOCIATIVITY) \div 64 <= 64 * HTRACE_WIDTH) =>
        /\ \A k \in 1..Len(hist.recorded) :
               \A s \in Sets :
                   HtraceBit(hist.recorded[k].m.htrace, s) <=> s \in hist.runs[k].evicted
        /\ \A j, k \in 1..Len(hist.recorded) :
               hist.runs[j].evicted # hist.runs[k].evicted =>
                   hist.recorded[j].m.htrace # hist.recorded[k].m.htrace

\* C9 witness: in the 64-set build two runs evicted different sets and their
\* htrace words differ
C9_Witness ==
    /\ PrimeProbeLoaded
    /\ build = SmallBuild
    /\ Len(hist.recorded) = 2
    /\ hist.runs[1].evicted # {}
    /\ hist.runs[1].evicted # hist.runs[2].evicted
    /\ hist.recorded[1].m.htrace # hist.recorded[2].m.htrace

\* no index has been refused so far
AbortFree == hist.aborted_at = <<>>

\* what holds of a session with an unknown template or a refused index
C5_StateAbort ==
    /\ ~KnownTemplate =>
        /\ orch.state \in {"NoSession", "Returned"}
        /\ measurement_code = NoCode
        /\ hist.load # <<>> => hist.load[1].status # "OK"
        /\ hist.runs = <<>> /\ hist.recorded = <<>> /\ hist.stored = <<>>
        /\ Returned => orch.ret # 0 /\ "UnknownTemplate" \in orch.status
    /\ "OutOfRange" \in orch.status <=> ~AbortFree
    /\ ~AbortFree =>
        /\ Returned
        /\ orch.ret # 0
        /\ Len(hist.aborted_at) = 1
        /\ hist.aborted_at[1].i >= hist.aborted_at[1].n_seen
        /\ \A k \in 1..Len(hist.runs) : hist.runs[k].i < hist.aborted_at[1].i
        /\ \A k \in 1..Len(hist.stored) : hist.stored[k] < hist.aborted_at[1].i
        /\ \A k \in hist.aborted_at[1].i .. (MaxInputs - 1) :
               measurements[k] = ZeroMeasurement

\* the step at the bounds check, and the silence after the return
C5_StepAbort ==
    /\ (orch.state = "Idle" /\ orch.i >= n_inputs /\ orch' # orch) =>
        /\ orch'.state = "Returned"
        /\ "OutOfRange" \in orch'.status
        /\ orch'.ret # 0
        /\ UNCHANGED <<sandbox, cache, cpu, measurements>>
    /\ Returned => UNCHANGED <<orch, sandbox, cache, cpu, measurements>>

\* C5: with an attack_template that names neither template load_template
\* fails and trace_test_case returns non-zero without any run; an index
\* outside the current input count at the installer's check makes
\* trace_test_case return non-zero at once, and after either error there is
\* no execution and no further measurement.
C5_ErrorsAbortSession == [](C5_StateAbort) /\ [][C5_StepAbort]_vars

\* C5 witness: the call was aborted with OutOfRange after one measured run
C5_Witness ==
    /\ Returned
    /\ "OutOfRange" \in orch.status
    /\ Len(hist.recorded) = 1
    /\ hist.aborted_at[1].i = 1

\* every installed index was below, every refused index at or above, the count read
C10_StateBounds ==
    /\ \A k \in 1..Len(hist.installs) :
           hist.installs[k].i >= 0 /\ hist.installs[k].i < hist.installs[k].n_seen
    /\ \A k \in 1..Len(hist.aborted_at) :
           hist.aborted_at[k].i >= hist.aborted_at[k].n_seen

\* the step at the bounds check decides by the count at that moment
C10_StepBounds ==
    (orch.state = "Idle" /\ orch' # orch) =>
        IF orch.i < n_inputs
        THEN /\ orch'.state = "Reset"
             /\ LastOf(hist'.installs) = [i |-> orch.i, n_seen |-> n_inputs]
        ELSE /\ "OutOfRange" \in orch'.status
             /\ hist'.installs = hist.installs
             /\ sandbox' = sandbox

\* C10: whatever the producer does to n_inputs, the installer copies input i
\* only if i is below the value n_inputs has at the bounds check of that run,
\* and an index at or above that value gives OutOfRange and no copy.
C10_CountIsReread == [](C10_StateBounds) /\ [][C10_StepBounds]_vars

\* C10 witness: the producer shrank n_inputs during the call, after a run was
\* installed, and the next index was refused
C10_Witness ==
    /\ hist.n_changed
    /\ Len(hist.installs) >= 1
    /\ ~AbortFree
    /\ hist.aborted_at[1].i < hist.n_cached

===========================================================================
